---- MODULE Spec2Model ----
(***************************************************************************)
(* A model of pschulam/subtype: the trajectory transforms of               *)
(* subtype_model.py / util.py (make_trajectories, add_covariates,          *)
(* truncate_trajectory, predictive_contexts) and the EM driver             *)
(* SubtypeMixture.fit.                                                     *)
(*                                                                         *)
(* Spec     : a caller applying the trajectory transforms.                 *)
(* FitSpec  : one call of SubtypeMixture.fit.                              *)
(* RefitSpec: two calls of fit, on two fresh models, over the same data    *)
(*            and the same random draw.                                    *)
(***************************************************************************)
EXTENDS Integers, Sequences, FiniteSets, TLC

VARIABLES
    call,           \* the last transform called, with its arguments
    ret,            \* what the last transform returned (a list)
    raised          \* the exception the last transform raised, or "none"

trVars == <<call, ret, raised>>

VARIABLES
    trajectories,       \* fit's argument: the list of trajectories
    max_iter, tol,      \* fit's arguments
    pc,                 \* where the fit call is: idle, cache, em, done, error
    error,              \* the exception that ended the call, or "none"
    cache,              \* fit's local OrderedDict: key -> TrajectoryData
    covariates,         \* fit's local list of covariate vectors
    basis_calls,        \* the arguments self.basis was invoked with, in order
    cov_calls,          \* the arguments self.cov was invoked with, in order
    qz,                 \* the responsibilities
    iteration,          \* fit's local iteration counter
    logl,               \* fit's local log-likelihood trace (logl[i + 1] is LL[i])
    abs_delta,          \* the normalized change computed last
    max_indexed,        \* the highest position of logl the call has indexed
    subtype_marginal,   \* self.subtype_marginal, the classifier
    coef,               \* self.coef
    numerics,           \* what the numerical primitives return on this data and draw
    prior               \* what an earlier fit call on the same data left, or None

fitVars == <<trajectories, max_iter, tol, pc, error, cache, covariates, basis_calls,
             cov_calls, qz, iteration, logl, abs_delta, max_indexed,
             subtype_marginal, coef, numerics, prior>>

vars == <<trVars, fitVars>>

----------------------------------------------------------------------------
(* Bounds and value sets of the transform model.                           *)

MaxRows == 3

KeyValues == {1, 2}
TimeValues == {0, 1}
MarkerValues == {7, 9}
CovariateValues == {0, 1}

\* Python's None and an optional value: <<>> is None, <<x>> is x.
None == <<>>
Some(x) == <<x>>
IsNone(o) == o = <<>>
Value(o) == o[1]

Min(a, b) == IF a < b THEN a ELSE b
Max(a, b) == IF a > b THEN a ELSE b

RECURSIVE SeqsUpTo(_, _)
SeqsUpTo(S, n) ==
    IF n = 0 THEN {<<>>}
    ELSE LET shorter == SeqsUpTo(S, n - 1)
         IN  shorter \cup {Append(s, x) : s \in {q \in shorter : Len(q) = n - 1}, x \in S}

----------------------------------------------------------------------------
(* The data model.                                                         *)

\* Trajectory = namedtuple('Trajectory', ['key', 't', 'y', 'covariates'])
Trajectory(key, t, y, covs) ==
    [key |-> key, t |-> t, y |-> y, covariates |-> covs]

\* covariates = np.ones(1)
DefaultCovariates == <<1>>

\* A row of the input dataframe: the key, time and marker columns.
Rows == [key : KeyValues, time : TimeValues, marker : MarkerValues]
DataFrames == SeqsUpTo(Rows, MaxRows)

\* A row of the dataframe add_covariates reads: the key and one column x.
CovRows == [key : KeyValues, x : CovariateValues]
CovFrames == SeqsUpTo(CovRows, 2)

IsSorted(t) == \A i \in 1..Len(t) : \A j \in 1..Len(t) : i < j => t[i] <= t[j]

----------------------------------------------------------------------------
(* numpy and pandas primitives the transforms use.                         *)

\* a[:k]
PySliceTo(a, k) ==
    LET n == Len(a)
        stop == IF k < 0 THEN Max(n + k, 0) ELSE Min(k, n)
    IN  SubSeq(a, 1, stop)

\* a[k:]
PySliceFrom(a, k) ==
    LET n == Len(a)
        start == IF k < 0 THEN Max(n + k, 0) ELSE Min(k, n)
    IN  SubSeq(a, start + 1, n)

\* a[idx] for an index array idx
Take(a, idx) == [i \in 1..Len(idx) |-> a[idx[i]]]

\* a[keep] for a boolean mask keep of a's length
RECURSIVE MaskSelect(_, _)
MaskSelect(a, keep) ==
    IF a = <<>> THEN <<>>
    ELSE (IF Head(keep) THEN <<Head(a)>> ELSE <<>>) \o MaskSelect(Tail(a), Tail(keep))

Permutations1(n) ==
    {p \in [1..n -> 1..n] : \A i \in 1..n : \A j \in 1..n : p[i] = p[j] => i = j}

\* An index array that leaves the values in their input order (no sort).
ArgsortNone(t) == {[i \in 1..Len(t) |-> i]}

\* np.argsort(t): an index array that sorts t. The default sort is not stable,
\* so the order among equal times is any.
Argsort(t) == {p \in Permutations1(Len(t)) : IsSorted(Take(t, p))}

\* dataframe.groupby(key): the keys ascending, each with its rows in input order.
GroupKeys(dataframe) == {dataframe[i].key : i \in 1..Len(dataframe)}

RECURSIVE SortedSeq(_)
SortedSeq(S) ==
    IF S = {} THEN <<>>
    ELSE LET m == CHOOSE x \in S : \A z \in S : x <= z
         IN  <<m>> \o SortedSeq(S \ {m})

GroupRows(dataframe, k) == SelectSeq(dataframe, LAMBDA r : r.key = k)

Column(data, name) == [i \in 1..Len(data) |-> data[i][name]]

----------------------------------------------------------------------------
(* The transforms.                                                         *)

\* The body of make_trajectories' loop for one group: the group's times and
\* markers reordered by np.argsort(t).
GroupTrajectories(k, data) ==
    LET t == Column(data, "time")
        y == Column(data, "marker")
    IN  {Trajectory(k, Take(t, idx), Take(y, idx), DefaultCovariates) : idx \in Argsort(t)}

RECURSIVE MakeGroups(_, _)
MakeGroups(dataframe, keys) ==
    IF keys = <<>> THEN {<<>>}
    ELSE {<<trj>> \o rest :
            trj \in GroupTrajectories(Head(keys), GroupRows(dataframe, Head(keys))),
            rest \in MakeGroups(dataframe, Tail(keys))}

\* make_trajectories(key, time, marker, dataframe): the lists it can return.
make_trajectories(dataframe) == MakeGroups(dataframe, SortedSeq(GroupKeys(dataframe)))

\* cov_matrix = dmatrix(formula, dataframe): one row per dataframe row, here the
\* intercept and the column x.
DMatrix(dataframe) == [i \in 1..Len(dataframe) |-> <<1, dataframe[i].x>>]

\* covariates = {k: v for k, v in zip(row_keys, cov_matrix)}: the last row of a
\* key wins.
CovariatesDict(dataframe) ==
    LET cov_matrix == DMatrix(dataframe)
        row_keys == Column(dataframe, "key")
        last(k) == CHOOSE i \in 1..Len(row_keys) :
                      /\ row_keys[i] = k
                      /\ \A j \in 1..Len(row_keys) : row_keys[j] = k => j <= i
    IN  [k \in {row_keys[i] : i \in 1..Len(row_keys)} |-> cov_matrix[last(k)]]

\* add_covariates(trajectories, key, formula, dataframe)
add_covariates(trjs, dataframe) ==
    LET by_key == CovariatesDict(dataframe)
    IN  IF \E i \in 1..Len(trjs) : trjs[i].key \notin DOMAIN by_key
        THEN [raised |-> "KeyError", value |-> <<>>]
        ELSE [raised |-> "none",
              value |-> [i \in 1..Len(trjs) |->
                           Trajectory(trjs[i].key, trjs[i].t, trjs[i].y,
                                      by_key[trjs[i].key])]]

\* truncate_trajectory with the two selectors tested in the other order.
truncate_trajectory_censoring_first(trajectory, num_obs, censoring_time) ==
    IF ~IsNone(censoring_time)
    THEN LET keep == [i \in 1..Len(trajectory.t) |-> trajectory.t[i] < Value(censoring_time)]
         IN  [raised |-> "none",
              value |-> <<Trajectory(trajectory.key, MaskSelect(trajectory.t, keep),
                                     MaskSelect(trajectory.y, keep), trajectory.covariates)>>]
    ELSE IF ~IsNone(num_obs)
    THEN [raised |-> "none",
          value |-> <<Trajectory(trajectory.key, PySliceTo(trajectory.t, Value(num_obs)),
                                 PySliceTo(trajectory.y, Value(num_obs)),
                                 trajectory.covariates)>>]
    ELSE [raised |-> "RuntimeError", value |-> <<>>]

\* truncate_trajectory rejecting every call that does not give num_obs.
truncate_trajectory_requires_num_obs(trajectory, num_obs, censoring_time) ==
    IF ~IsNone(num_obs)
    THEN [raised |-> "none",
          value |-> <<Trajectory(trajectory.key, PySliceTo(trajectory.t, Value(num_obs)),
                                 PySliceTo(trajectory.y, Value(num_obs)),
                                 trajectory.covariates)>>]
    ELSE [raised |-> "RuntimeError", value |-> <<>>]

\* truncate_trajectory(trajectory, num_obs=None, censoring_time=None)
truncate_trajectory(trajectory, num_obs, censoring_time) ==
    IF ~IsNone(num_obs)
    THEN [raised |-> "none",
          value |-> <<Trajectory(trajectory.key, PySliceTo(trajectory.t, Value(num_obs)),
                                 PySliceTo(trajectory.y, Value(num_obs)),
                                 trajectory.covariates)>>]
    ELSE IF ~IsNone(censoring_time)
    THEN LET keep == [i \in 1..Len(trajectory.t) |-> trajectory.t[i] < Value(censoring_time)]
         IN  [raised |-> "none",
              value |-> <<Trajectory(trajectory.key, MaskSelect(trajectory.t, keep),
                                     MaskSelect(trajectory.y, keep), trajectory.covariates)>>]
    ELSE [raised |-> "RuntimeError", value |-> <<>>]

\* predictive_contexts holding out one observation too few (t[num_obs + 1:]).
predictive_contexts_skip_one(trajectory) ==
    LET n == Len(trajectory.t)
    IN  [num_obs \in 1..(n - 1) |->
           [obs_trj |-> Value(truncate_trajectory(trajectory, Some(num_obs), None).value),
            t_new |-> PySliceFrom(trajectory.t, num_obs + 1),
            y_new |-> PySliceFrom(trajectory.y, num_obs + 1)]]

\* predictive_contexts(trajectory): everything the generator yields, in order.
\* range(1, n) is empty for n <= 1.
predictive_contexts(trajectory) ==
    LET n == Len(trajectory.t)
    IN  [num_obs \in 1..(n - 1) |->
           [obs_trj |-> Value(truncate_trajectory(trajectory, Some(num_obs), None).value),
            t_new |-> PySliceFrom(trajectory.t, num_obs),
            y_new |-> PySliceFrom(trajectory.y, num_obs)]]

----------------------------------------------------------------------------
(* The caller of the transforms.                                           *)

NoCall ==
    [fn |-> "none", dataframe |-> <<>>, trajectory |-> None,
     num_obs |-> None, censoring_time |-> None]

\* The arguments a caller passes to truncate_trajectory.
NumObsArgs == {None} \cup {Some(k) : k \in (0 - MaxRows)..(MaxRows + 1)}
CensoringArgs == {None} \cup {Some(c) : c \in TimeValues \cup {2}}

\* The list of trajectories the caller can pass on: the one the last
\* make_trajectories or add_covariates call returned.
HeldList ==
    IF call.fn \in {"make_trajectories", "add_covariates"} /\ raised = "none"
    THEN ret ELSE <<>>

\* The trajectories the caller can pass on: those of that list, and those the
\* last truncate_trajectory or predictive_contexts call returned.
Held ==
    {HeldList[i] : i \in 1..Len(HeldList)}
    \cup (IF call.fn = "truncate_trajectory" /\ raised = "none" THEN {ret[1]} ELSE {})
    \cup (IF call.fn = "predictive_contexts"
          THEN {ret[i].obs_trj : i \in 1..Len(ret)} ELSE {})

TrInit ==
    /\ call = NoCall
    /\ ret = <<>>
    /\ raised = "none"

MakeTrajectories ==
    /\ call.fn = "none"
    /\ \E dataframe \in DataFrames :
        \E result \in make_trajectories(dataframe) :
            /\ call' = [NoCall EXCEPT !.fn = "make_trajectories", !.dataframe = dataframe]
            /\ ret' = result
            /\ raised' = "none"
    /\ UNCHANGED fitVars

AddCovariates ==
    /\ HeldList # <<>>
    /\ \E dataframe \in CovFrames :
        LET result == add_covariates(HeldList, dataframe)
        IN  /\ call' = [NoCall EXCEPT !.fn = "add_covariates", !.dataframe = dataframe]
            /\ ret' = result.value
            /\ raised' = result.raised
    /\ UNCHANGED fitVars

TruncateTrajectory ==
    /\ \E trajectory \in Held : \E num_obs \in NumObsArgs : \E censoring_time \in CensoringArgs :
        LET result == truncate_trajectory(trajectory, num_obs, censoring_time)
        IN  /\ call' = [NoCall EXCEPT !.fn = "truncate_trajectory",
                                      !.trajectory = Some(trajectory),
                                      !.num_obs = num_obs,
                                      !.censoring_time = censoring_time]
            /\ ret' = result.value
            /\ raised' = result.raised
    /\ UNCHANGED fitVars

PredictiveContexts ==
    /\ \E trajectory \in Held :
        /\ call' = [NoCall EXCEPT !.fn = "predictive_contexts",
                                  !.trajectory = Some(trajectory)]
        /\ ret' = predictive_contexts(trajectory)
        /\ raised' = "none"
    /\ UNCHANGED fitVars

----------------------------------------------------------------------------
(* Floating-point values: num/den with den > 0, or 1/0 (inf), -1/0 (-inf), *)
(* 0/0 (nan), compared and combined as IEEE 754 does.                      *)

Ratio(n, d) == [num |-> n, den |-> d]
PosInf == Ratio(1, 0)
NegInf == Ratio(0 - 1, 0)
NaN == Ratio(0, 0)
Zero == Ratio(0, 1)

IsNaN(x) == x.den = 0 /\ x.num = 0
IsInf(x) == x.den = 0 /\ x.num # 0

\* a - b
FSub(a, b) ==
    IF IsNaN(a) \/ IsNaN(b) THEN NaN
    ELSE IF IsInf(a) THEN (IF IsInf(b) /\ a.num = b.num THEN NaN ELSE a)
    ELSE IF IsInf(b) THEN Ratio(0 - b.num, 0)
    ELSE Ratio(a.num * b.den - b.num * a.den, a.den * b.den)

\* abs(a)
FAbs(a) == Ratio(IF a.num < 0 THEN 0 - a.num ELSE a.num, a.den)

\* a / b for b >= 0 (numpy: x / 0 is inf, -inf or nan, with a warning)
FDiv(a, b) ==
    IF IsNaN(a) \/ IsNaN(b) THEN NaN
    ELSE IF IsInf(a) THEN (IF IsInf(b) THEN NaN ELSE a)
    ELSE IF IsInf(b) THEN Zero
    ELSE IF b.num = 0
    THEN (IF a.num = 0 THEN NaN ELSE IF a.num > 0 THEN PosInf ELSE NegInf)
    ELSE Ratio(a.num * b.den, a.den * b.num)

\* a < b
FLess(a, b) ==
    IF IsNaN(a) \/ IsNaN(b) THEN FALSE
    ELSE IF IsInf(a) THEN a.num < 0 /\ ~(IsInf(b) /\ b.num < 0)
    ELSE IF IsInf(b) THEN b.num > 0
    ELSE a.num * b.den < b.num * a.den

----------------------------------------------------------------------------
(* Bounds and value sets of the fit model.                                 *)

MaxTraj == 2
MaxIter == 3
NSubtypes == 2

\* The trajectories fit is called with: what make_trajectories returns.
TrajPool ==
    {Trajectory(k, ty[1], ty[2], DefaultCovariates) :
        k \in KeyValues, ty \in {<< <<0>>, <<7>> >>, << <<0, 1>>, <<7, 9>> >>}}
FitInputs == SeqsUpTo(TrajPool, MaxTraj)

MaxIterArgs == 0..MaxIter
TolArgs == {Zero, Ratio(1, 2), PosInf}

\* The totals an E-step can accumulate into logl[iteration].
LLValues == {NegInf, NaN, Ratio(0 - 2, 1), Ratio(0 - 1, 1), Zero}

----------------------------------------------------------------------------
(* The collaborators of fit: the basis and covariance evaluators, the      *)
(* solver, the classifier.                                                 *)

\* self.basis(t): the design matrix, one row per time point.
Basis(t) == [basis_at |-> t]
\* self.cov(t): the covariance matrix of the time points.
Cov(t) == [cov_at |-> t]

\* TrajectoryData(X, C, cov_xx, cov_xy) of one trajectory.
TrajectoryData(trj) ==
    LET X == Basis(trj.t)
        C == Cov(trj.t)
    IN  [X |-> X, C |-> C,
         cov_xx |-> [xt_solve |-> <<C, X>>],
         cov_xy |-> [xt_solve |-> <<C, trj.y>>]]

\* cache[trj.key] = ...
CachePut(c, key, data) ==
    [k \in DOMAIN c \cup {key} |-> IF k = key THEN data ELSE c[k]]

\* cache[trj.key]
StatsFor(c, trj) == c[trj.key]

\* loglik called without the cached matrices, as posterior calls it.
EStepLoglikArgsNone(c, trj) == [X |-> None, C |-> None]

\* The X and C the E-step passes to loglik.
EStepLoglikArgs(c, trj) == [X |-> Some(StatsFor(c, trj).X), C |-> Some(StatsFor(c, trj).C)]

\* loglik: X = self.basis(trajectory.t) if X is None else X (and C likewise):
\* the evaluator calls one loglik call makes.
LoglikBasisCalls(trj, X) == IF IsNone(X) THEN <<trj.t>> ELSE <<>>
LoglikCovCalls(trj, C) == IF IsNone(C) THEN <<trj.t>> ELSE <<>>

RECURSIVE ConcatAll(_)
ConcatAll(ss) == IF ss = <<>> THEN <<>> ELSE Head(ss) \o ConcatAll(Tail(ss))

\* The evaluator calls of one E-step: loglik for every trajectory and subtype.
EStepBasisCalls(c, trjs) ==
    ConcatAll([i \in 1..Len(trjs) |->
        ConcatAll([z \in 1..NSubtypes |->
            LoglikBasisCalls(trjs[i], EStepLoglikArgs(c, trjs[i]).X)])])
EStepCovCalls(c, trjs) ==
    ConcatAll([i \in 1..Len(trjs) |->
        ConcatAll([z \in 1..NSubtypes |->
            LoglikCovCalls(trjs[i], EStepLoglikArgs(c, trjs[i]).C)])])

\* np.vstack(covariates) fails on an empty list and on rows of unequal length.
VStackOk(covs) ==
    /\ covs # <<>>
    /\ \A i \in 1..Len(covs) : Len(covs[i]) = Len(covs[1])

\* logl[0] = -float('inf') starting the trace at zero instead.
InitialLoglZero == Zero

\* logl[iteration] = -float('inf')
InitialLogl == NegInf

\* logl = np.zeros(max_iter + 1); logl[0] = InitialLogl
NewLogl(mi) == [i \in 1..(mi + 1) |-> IF i = 1 THEN InitialLogl ELSE Zero]

\* if iteration >= max_iter or abs_delta < tol: break
StopTest(it, mi, ad, tl) == it >= mi \/ FLess(ad, tl)

\* self._init_params(): a model that has not been fitted.
FreshMarginal == [fits |-> 0, qz |-> 0]
FreshCoef == [solves |-> 0, cov_xx |-> <<>>, cov_xy |-> <<>>]
NoCache == [k \in {} |-> 0]
NoNumerics == [solve_ok |-> <<>>, em |-> <<>>]

\* An E-step's cached X has as many rows as the trajectory has observations.
ShapesMatch(c, trjs) ==
    \A i \in 1..Len(trjs) : Len(StatsFor(c, trjs[i]).X.basis_at) = Len(trjs[i].y)

\* What the numerical primitives of EM iteration it can do on this data: the
\* coefficient solve fails on a singular system, the log-density fails on
\* mismatched shapes, or the E-step accumulates a total. A second call on the
\* same data and draw meets what the first met.
EMOutcomes(it) ==
    IF it <= Len(numerics.em) THEN {numerics.em[it]}
    ELSE {[raises |-> "LinAlgError", ll |-> NaN]}
         \cup (IF ShapesMatch(cache, trajectories) THEN {}
               ELSE {[raises |-> "ValueError", ll |-> NaN]})
         \cup {[raises |-> "none", ll |-> v] : v \in LLValues}

SolveOutcomes(i) ==
    IF i <= Len(numerics.solve_ok) THEN {numerics.solve_ok[i]} ELSE BOOLEAN

Remember(memo, i, v) == IF i <= Len(memo) THEN memo ELSE Append(memo, v)

----------------------------------------------------------------------------
(* SubtypeMixture.fit(trajectories, max_iter, tol).                        *)

FitIdle ==
    /\ max_iter = 0
    /\ tol = Zero
    /\ pc = "idle"
    /\ error = "none"
    /\ cache = NoCache
    /\ covariates = <<>>
    /\ basis_calls = <<>>
    /\ cov_calls = <<>>
    /\ qz = [e_steps |-> 0, partial |-> FALSE]
    /\ iteration = 0
    /\ logl = <<>>
    /\ abs_delta = NaN
    /\ max_indexed = 0 - 1
    /\ subtype_marginal = FreshMarginal
    /\ coef = FreshCoef
    /\ numerics = NoNumerics
    /\ prior = None

\* The call: cache = OrderedDict(); covariates = []
FitCall ==
    /\ pc = "idle"
    /\ \E mi \in MaxIterArgs : \E tl \in TolArgs :
        /\ max_iter' = mi
        /\ tol' = tl
    /\ pc' = "cache"
    /\ cache' = NoCache
    /\ covariates' = <<>>
    /\ UNCHANGED <<trajectories, error, basis_calls, cov_calls, qz, iteration, logl,
                   abs_delta, max_indexed, subtype_marginal, coef, numerics, prior>>
    /\ UNCHANGED trVars

\* One pass of "for trj in trajectories": evaluate the basis and the covariance,
\* solve, store the entry under trj.key, append the covariates.
FitCacheStep ==
    /\ pc = "cache"
    /\ Len(covariates) < Len(trajectories)
    /\ LET i == Len(covariates) + 1
           trj == trajectories[i]
       IN  /\ basis_calls' = Append(basis_calls, trj.t)
           /\ cov_calls' = Append(cov_calls, trj.t)
           /\ \E ok \in SolveOutcomes(i) :
                /\ numerics' = [numerics EXCEPT !.solve_ok = Remember(@, i, ok)]
                /\ IF ok
                   THEN /\ cache' = CachePut(cache, trj.key, TrajectoryData(trj))
                        /\ covariates' = Append(covariates, trj.covariates)
                        /\ UNCHANGED <<pc, error>>
                   ELSE /\ pc' = "error"
                        /\ error' = "LinAlgError"
                        /\ UNCHANGED <<cache, covariates>>
    /\ UNCHANGED <<trajectories, max_iter, tol, qz, iteration, logl, abs_delta,
                   max_indexed, subtype_marginal, coef, prior>>
    /\ UNCHANGED trVars

\* After the loop: stack the covariates, draw qz, start the trace.
FitSetup ==
    /\ pc = "cache"
    /\ Len(covariates) = Len(trajectories)
    /\ IF ~VStackOk(covariates) \/ max_iter + 1 < 0
       THEN /\ pc' = "error"
            /\ error' = "ValueError"
            /\ UNCHANGED <<qz, iteration, logl, max_indexed>>
       ELSE /\ qz' = [e_steps |-> 0, partial |-> FALSE]
            /\ iteration' = 0
            /\ logl' = NewLogl(max_iter)
            /\ max_indexed' = 0
            /\ IF max_iter + 1 = 0
               THEN pc' = "error" /\ error' = "IndexError"
               ELSE pc' = "em" /\ UNCHANGED error
    /\ UNCHANGED <<trajectories, max_iter, tol, cache, covariates, basis_calls,
                   cov_calls, abs_delta, subtype_marginal, coef, numerics, prior>>
    /\ UNCHANGED trVars

\* One pass of "while True": the classifier fit, the coefficient solve, the
\* E-step, the exit test.
EMIteration ==
    /\ pc = "em"
    /\ LET it == iteration + 1
           n == Len(trajectories)
           stats == [i \in 1..n |-> StatsFor(cache, trajectories[i])]
       IN  /\ iteration' = it
           /\ subtype_marginal' = [fits |-> subtype_marginal.fits + 1, qz |-> qz.e_steps]
           /\ \E outcome \in EMOutcomes(it) :
                /\ numerics' = [numerics EXCEPT !.em = Remember(@, it, outcome)]
                /\ IF outcome.raises = "LinAlgError"
                   THEN \* solve(cov_xx[z], cov_xy[z]) raises
                        /\ pc' = "error"
                        /\ error' = outcome.raises
                        /\ UNCHANGED <<coef, qz, logl, abs_delta, max_indexed,
                                       basis_calls, cov_calls>>
                   ELSE /\ coef' = [solves |-> coef.solves + 1,
                                    cov_xx |-> [i \in 1..n |-> stats[i].cov_xx],
                                    cov_xy |-> [i \in 1..n |-> stats[i].cov_xy]]
                        /\ basis_calls' = basis_calls \o EStepBasisCalls(cache, trajectories)
                        /\ cov_calls' = cov_calls \o EStepCovCalls(cache, trajectories)
                        /\ IF outcome.raises = "ValueError"
                           THEN \* the log-density of the first mismatched trajectory raises
                                /\ pc' = "error"
                                /\ error' = outcome.raises
                                /\ qz' = [qz EXCEPT !.partial = TRUE]
                                /\ UNCHANGED <<logl, abs_delta, max_indexed>>
                           ELSE IF it + 1 > Len(logl)
                           THEN \* logl[iteration] += marg_loglik is out of bounds
                                /\ pc' = "error"
                                /\ error' = "IndexError"
                                /\ qz' = [qz EXCEPT !.partial = TRUE]
                                /\ max_indexed' = it
                                /\ UNCHANGED <<logl, abs_delta>>
                           ELSE LET ll == [logl EXCEPT ![it + 1] = outcome.ll]
                                    delta == FSub(ll[it + 1], ll[it])
                                    ad == FDiv(delta, FAbs(ll[it + 1]))
                                IN  /\ logl' = ll
                                    /\ max_indexed' = it
                                    /\ qz' = [e_steps |-> qz.e_steps + 1, partial |-> FALSE]
                                    /\ abs_delta' = ad
                                    /\ pc' = IF StopTest(it, max_iter, ad, tol)
                                             THEN "done" ELSE "em"
                                    /\ UNCHANGED error
    /\ UNCHANGED <<trajectories, max_iter, tol, cache, covariates, prior>>
    /\ UNCHANGED trVars

\* What a caller has once fit returned self: the fitted classifier and the
\* coefficients (iteration, logl and abs_delta are locals of the call).
Observable == [coef |-> coef, subtype_marginal |-> subtype_marginal]

\* Whether the call that returned met tol at its last exit test.
MetTol == FLess(abs_delta, tol)

\* A second model is constructed and fitted on the same trajectories with the
\* same random draw, after the first call returned.
Refit ==
    /\ pc = "done"
    /\ IsNone(prior)
    /\ prior' = Some([observable |-> Observable, met_tol |-> MetTol,
                      max_iter |-> max_iter, tol |-> tol])
    /\ pc' = "idle"
    /\ error' = "none"
    /\ cache' = NoCache
    /\ covariates' = <<>>
    /\ basis_calls' = <<>>
    /\ cov_calls' = <<>>
    /\ qz' = [e_steps |-> 0, partial |-> FALSE]
    /\ iteration' = 0
    /\ logl' = <<>>
    /\ abs_delta' = NaN
    /\ max_indexed' = 0 - 1
    /\ subtype_marginal' = FreshMarginal
    /\ coef' = FreshCoef
    /\ UNCHANGED <<trajectories, max_iter, tol, numerics>>
    /\ UNCHANGED trVars

----------------------------------------------------------------------------
(* The specifications.                                                     *)

\* A caller applying the trajectory transforms; no model is fitted.
Init == TrInit /\ trajectories = <<>> /\ FitIdle
Next ==
    \/ MakeTrajectories
    \/ AddCovariates
    \/ TruncateTrajectory
    \/ PredictiveContexts
Spec == Init /\ [][Next]_vars

\* One call of fit on a list of trajectories.
FitInit == TrInit /\ trajectories \in FitInputs /\ FitIdle
FitNext ==
    \/ FitCall
    \/ FitCacheStep
    \/ FitSetup
    \/ EMIteration
FitSpec == FitInit /\ [][FitNext]_vars

\* Two calls of fit, one after the other, on the same list.
RefitNext ==
    \/ FitCall
    \/ FitCacheStep
    \/ FitSetup
    \/ EMIteration
    \/ Refit
RefitSpec == FitInit /\ [][RefitNext]_vars

----------------------------------------------------------------------------
(* Properties of the transforms.                                           *)

Source == Value(call.trajectory)

\* The first k entries of a (none when k <= 0, all of them when k >= Len(a)).
FirstEntries(a, k) == [i \in 1..Min(k, Len(a)) |-> a[i]]

\* The entries of a after its first k.
EntriesAfter(a, k) == [i \in 1..(Len(a) - k) |-> a[k + i]]

ValidTrajectory(trj) == Len(trj.t) = Len(trj.y) /\ IsSorted(trj.t)

\* The trajectories the last call returned.
ReturnedTrajectories ==
    IF call.fn \in {"make_trajectories", "add_covariates", "truncate_trajectory"}
    THEN {ret[i] : i \in 1..Len(ret)}
    ELSE IF call.fn = "predictive_contexts"
    THEN {ret[i].obs_trj : i \in 1..Len(ret)}
    ELSE {}

\* What C1 says of context i of the last predictive_contexts call.
ContextSplitsAt(i) ==
    /\ ret[i].obs_trj = Value(truncate_trajectory(Source, Some(i), None).value)
    /\ ret[i].obs_trj = Trajectory(Source.key, FirstEntries(Source.t, i),
                                   FirstEntries(Source.y, i), Source.covariates)
    /\ ret[i].t_new = EntriesAfter(Source.t, i)
    /\ ret[i].y_new = EntriesAfter(Source.y, i)
    /\ ret[i].obs_trj.t \o ret[i].t_new = Source.t
    /\ ret[i].obs_trj.y \o ret[i].y_new = Source.y

\* C1 as stated: predictive_contexts on a trajectory of length n yields exactly
\* n - 1 contexts, the i-th being the first i observations (the truncation at
\* num_obs = i) with the remaining entries t[i:], y[i:] held out.
C1_AsStated ==
    call.fn = "predictive_contexts" =>
        /\ Len(ret) = Len(Source.t) - 1
        /\ \A i \in 1..Len(ret) : ContextSplitsAt(i)

\* C1 amended: predictive_contexts yields n - 1 contexts for a trajectory of
\* length n >= 1 and none for an empty trajectory (n = 0); the i-th context is
\* the first i observations with the remaining entries held out, and observed
\* followed by held-out reproduces the source.
C1_PredictiveContexts ==
    call.fn = "predictive_contexts" =>
        /\ Len(ret) = Max(Len(Source.t) - 1, 0)
        /\ \A i \in 1..Len(ret) : ContextSplitsAt(i)

C1_Witness ==
    /\ call.fn = "predictive_contexts"
    /\ Len(Source.t) = 3
    /\ Len(ret) = 2
    /\ ret[2].t_new = <<Source.t[3]>>

\* C2: every trajectory a transform returns has len(t) = len(y) and t sorted
\* ascending.
C2_OutputsValid == \A trj \in ReturnedTrajectories : ValidTrajectory(trj)

C2_Witness ==
    /\ call.fn = "make_trajectories"
    /\ ~IsSorted(Column(GroupRows(call.dataframe, 1), "time"))
    /\ Len(ret) = 2
    /\ Len(ret[1].t) = 2

\* C3: truncate_trajectory raises the invalid-argument error exactly when both
\* num_obs and censoring_time are None, and then returns nothing; otherwise it
\* returns one trajectory.
C3_NeitherSelectorRaises ==
    call.fn = "truncate_trajectory" =>
        /\ raised = "RuntimeError" <=> (IsNone(call.num_obs) /\ IsNone(call.censoring_time))
        /\ raised = "RuntimeError" => ret = <<>>
        /\ raised # "RuntimeError" => raised = "none" /\ Len(ret) = 1

C3_Witness ==
    /\ call.fn = "truncate_trajectory"
    /\ IsNone(call.num_obs)
    /\ IsNone(call.censoring_time)
    /\ Len(Source.t) > 0
    /\ raised = "RuntimeError"

\* What C4 says the truncation to the first k observations returns.
ReturnsFirst(k) ==
    /\ raised = "none"
    /\ ret = <<Trajectory(Source.key, FirstEntries(Source.t, k),
                          FirstEntries(Source.y, k), Source.covariates)>>

\* C4 as stated: for every num_obs that is given, truncate_trajectory returns
\* the first num_obs entries of t and y (all of them when num_obs >= n) with key
\* and covariates unchanged, whether or not censoring_time is given too.
C4_AsStated ==
    (call.fn = "truncate_trajectory" /\ ~IsNone(call.num_obs)) =>
        ReturnsFirst(Value(call.num_obs))

\* C4 amended: for every num_obs >= 0 that is given, truncate_trajectory returns
\* the first num_obs entries of t and y (all n when num_obs >= n) with key and
\* covariates unchanged, whether or not censoring_time is given too; a negative
\* num_obs keeps the first max(n + num_obs, 0) entries instead.
C4_NumObsPrefix ==
    (call.fn = "truncate_trajectory" /\ ~IsNone(call.num_obs)) =>
        IF Value(call.num_obs) >= 0
        THEN ReturnsFirst(Value(call.num_obs))
        ELSE ReturnsFirst(Max(Len(Source.t) + Value(call.num_obs), 0))

\* num_obs and censoring_time both given, and they select different prefixes.
C4_Witness ==
    /\ call.fn = "truncate_trajectory"
    /\ ~IsNone(call.num_obs)
    /\ ~IsNone(call.censoring_time)
    /\ Value(call.num_obs) = 2
    /\ Len(Source.t) = 3
    /\ Cardinality({i \in 1..3 : Source.t[i] < Value(call.censoring_time)}) = 1
    /\ Len(ret[1].t) = 2

----------------------------------------------------------------------------
(* Properties of fit.                                                      *)

InLoop == pc \in {"em", "done"} \/ (pc = "error" /\ iteration >= 1)

\* C5 as stated: for every max_iter and tol the number of EM iterations fit
\* performs never exceeds max_iter, the trace logl is never indexed past
\* position max_iter, and the loop stops exactly when the iteration count has
\* reached max_iter or the normalized change is below tol.
C5_AsStated ==
    InLoop =>
        /\ iteration <= max_iter
        /\ max_indexed <= max_iter
        /\ pc = "done" => (iteration >= max_iter \/ MetTol)
        /\ pc = "em" => (iteration = 0 \/ ~(iteration >= max_iter \/ MetTol))

\* The same with max_iter = 0 left out: what the loop does keep for
\* max_iter >= 1.
C5_FromOne == max_iter >= 1 => C5_AsStated

\* C6 as stated: of two fit calls that returned, one having met tol at its last
\* exit test and one having stopped only on the iteration count, the models
\* left behind differ.
C6_AsStated ==
    (pc = "done" /\ ~IsNone(prior)) =>
        (Value(prior).met_tol # MetTol => Value(prior).observable # Observable)

\* The evaluators have been invoked once per list position, in list order.
EvaluatedOncePerTrajectory ==
    /\ basis_calls = [i \in 1..Len(trajectories) |-> trajectories[i].t]
    /\ cov_calls = [i \in 1..Len(trajectories) |-> trajectories[i].t]

\* C8: the basis and covariance evaluators are invoked exactly once per
\* trajectory of the list, before the first EM iteration, and an EM iteration
\* neither invokes them nor changes an entry of the cache.
C8_CacheBuiltOnce ==
    /\ [](pc \in {"em", "done"} => EvaluatedOncePerTrajectory)
    /\ [][pc = "em" => /\ cache' = cache
                       /\ basis_calls' = basis_calls
                       /\ cov_calls' = cov_calls]_vars

C8_Witness ==
    /\ pc = "done"
    /\ iteration = 3
    /\ Len(trajectories) = 2
    /\ trajectories[1].t # trajectories[2].t
    /\ basis_calls = <<trajectories[1].t, trajectories[2].t>>

\* C9 as stated: the cache holds one entry per trajectory of the list, and the
\* statistics the M-step and the E-step use for the trajectory at position i
\* are those computed from that trajectory's own t and y.
C9_AsStated ==
    (pc \in {"em", "done"} /\ coef.solves >= 1) =>
        /\ Cardinality(DOMAIN cache) = Len(trajectories)
        /\ \A i \in 1..Len(trajectories) :
            /\ StatsFor(cache, trajectories[i]) = TrajectoryData(trajectories[i])
            /\ coef.cov_xx[i] = TrajectoryData(trajectories[i]).cov_xx
            /\ coef.cov_xy[i] = TrajectoryData(trajectories[i]).cov_xy

\* k complete EM iterations: k classifier fits, k coefficient solves, k E-steps.
CompletedIterations(k) ==
    /\ iteration = k
    /\ subtype_marginal.fits = k
    /\ coef.solves = k
    /\ qz = [e_steps |-> k, partial |-> FALSE]

\* C10: the exit test never holds by tol after the first iteration, whatever
\* tol is; a fit call that returns has performed at least two complete EM
\* iterations when max_iter >= 2 and exactly one when max_iter = 1.
C10_NoStopAfterFirst ==
    /\ (pc \in {"em", "done"} /\ iteration = 1) => ~MetTol
    /\ pc = "done" =>
        \E k \in 1..max_iter :
            /\ CompletedIterations(k)
            /\ max_iter >= 2 => k >= 2
            /\ max_iter = 1 => k = 1

\* The fit returned after two iterations of three allowed, with a tol that any
\* finite change meets.
C10_Witness ==
    /\ pc = "done"
    /\ max_iter = 3
    /\ tol = PosInf
    /\ CompletedIterations(2)
    /\ logl[2] = Ratio(0 - 1, 1)

====
